---- MODULE Spec2Model ----
(***************************************************************************)
(* A model of flytekit's annotated task / workflow builders                *)
(* (flytekit/annotated/stuff.py) and of the control-plane workflow class   *)
(* SdkWorkflow (flytekit/common/workflow.py).                              *)
(*                                                                         *)
(* Four specifications share the module, one per subsystem:                *)
(*   Spec          the decorators and compile-mode invocations, with the   *)
(*                 process-wide compiling flag CONFIGURATION_SINGLETON.x   *)
(*   SpecInterface get_interface_from_task_info applied to bounded inputs  *)
(*   SpecRegister  SdkWorkflow.register against a control-plane client     *)
(*   SpecTemplate  SdkWorkflow.__init__ and promote_from_model             *)
(***************************************************************************)
EXTENDS Integers, Sequences, FiniteSets, TLC

VARIABLES
    x,         \* CONFIGURATION_SINGLETON.x, the process-wide compiling flag
    stack,     \* the active workflow.wrapper invocations, innermost last
    exc,       \* the exception in flight ("none" when there is none)
    nodes,     \* every SdkNode created so far, in creation order
    ret,       \* the outcome of the last operation: what an invocation gave
               \* its caller, or how a workflow.wrapper was left
    iface_in,  \* arguments of get_interface_from_task_info
    iface_out, \* its result
    wfid,      \* SdkWorkflow._id of every workflow object
    plane,     \* the control plane: registered id -> workflow registered
    reg,       \* what the last register call did
    tmpl_in,   \* the input of the constructor / promote_from_model
    tmpl_out   \* their result

buildVars == <<x, stack, exc, nodes, ret>>
ifaceVars == <<iface_in, iface_out>>
regVars   == <<wfid, plane, reg>>
tmplVars  == <<tmpl_in, tmpl_out>>
\* What the actions of one subsystem leave alone.
notBuild == <<iface_in, iface_out, wfid, plane, reg, tmpl_in, tmpl_out>>
notIface == <<x, stack, exc, nodes, ret, wfid, plane, reg, tmpl_in, tmpl_out>>
notReg   == <<x, stack, exc, nodes, ret, iface_in, iface_out, tmpl_in, tmpl_out>>
notTmpl  == <<x, stack, exc, nodes, ret, iface_in, iface_out, wfid, plane, reg>>
vars      == <<x, stack, exc, nodes, ret, iface_in, iface_out,
               wfid, plane, reg, tmpl_in, tmpl_out>>

\* None, Python's null.
None == "None"

(***************************************************************************)
(* Bounds of the model.                                                    *)
(***************************************************************************)
MaxNodes == 2      \* nodes created in one behaviour
MaxDepth == 2      \* nesting depth of workflow definitions
MaxExprs == 2      \* output expressions a builder function returns
MaxNames == 2      \* output names / return types given to the interface builder
MaxArgs  == 1      \* positional arguments of an invocation

(***************************************************************************)
(* Helpers on sequences and names.                                         *)
(***************************************************************************)
Range(s) == {s[i] : i \in DOMAIN s}

SeqsUpTo(S, n) == UNION {[1..k -> S] : k \in 0..n}

\* Every sequence that lists the elements of the finite set S once.
Perms(S) == {s \in [1..Cardinality(S) -> S] : Range(s) = S}

\* Python compares str lexicographically; the model's variable names are
\* single letters and NameOrder lists them in that order.
NameOrder == <<"a", "b", "c", "sum", "x", "y">>

Rank(n) == CHOOSE i \in DOMAIN NameOrder : NameOrder[i] = n

StrLess(s, t) == Rank(s) < Rank(t)


\* The outcome of a call: a value, or the exception it raised.
Ok(v) == [ok |-> TRUE, err |-> "none", val |-> v]

Err(e) == [ok |-> FALSE, err |-> e, val |-> None]

Pending == [ok |-> FALSE, err |-> "pending", val |-> None]

(***************************************************************************)
(* The interface builder (stuff.py, get_interface_from_task_info).         *)
(*                                                                         *)
(* fn.__annotations__ is modelled as [params, ret]: params maps each       *)
(* annotated parameter to its host type, ret is the 'return' entry:        *)
(*   [kind |-> "absent"]                  no 'return' key                  *)
(*   [kind |-> "type",  type  |-> t]      a single, non-tuple annotation   *)
(*   [kind |-> "tuple", types |-> <<..>>] a tuple of types                 *)
(* The code raises bare Exception at each failure; the model names the     *)
(* exception after the place that raises it.                               *)
(***************************************************************************)
SIMPLE_TYPE_LOOKUP_TABLE ==
    ("int" :> "INTEGER") @@ ("float" :> "FLOAT") @@ ("bool" :> "Boolean")
    @@ ("datetime" :> "DATETIME") @@ ("timedelta" :> "DURATION")
    @@ ("str" :> "STRING") @@ ("dict" :> "STRUCT")

Variable(type, description) == [type |-> type, description |-> description]

\* get_variable_map: raises on the first type that is not in the table.
get_variable_map(variable_map) ==
    IF \E k \in DOMAIN variable_map :
           variable_map[k] \notin DOMAIN SIMPLE_TYPE_LOOKUP_TABLE
    THEN Err("UnsupportedType")
    ELSE Ok([k \in DOMAIN variable_map |->
                Variable(SIMPLE_TYPE_LOOKUP_TABLE[variable_map[k]], k)])

Min(a, b) == IF a < b THEN a ELSE b

\* dict(zip(names, types)): zip stops at the shorter sequence, and of two
\* pairs with the same name the later one stays.
DictZip(variable_names, python_types) ==
    LET n == Min(Len(variable_names), Len(python_types))
        last(k) == CHOOSE i \in 1..n :
                       /\ variable_names[i] = k
                       /\ \A j \in 1..n : variable_names[j] = k => j <= i
    IN [k \in {variable_names[i] : i \in 1..n} |-> python_types[last(k)]]

get_variable_map_from_lists(variable_names, python_types) ==
    get_variable_map(DictZip(variable_names, python_types))

\* Lines 299-303: a single return type becomes a one-element tuple.
ReturnTypes(r) == IF r.kind # "tuple" THEN <<r.type>> ELSE r.types

TypedInterface(inputs_map, outputs_map) ==
    [inputs |-> inputs_map, outputs |-> outputs_map]

\* `len(output_names) > len(return_types)` where line 305 has `!=`.
get_interface_only_more_names(task_annotations, output_names) ==
    IF task_annotations.ret.kind = "absent" /\ Len(output_names) # 0
    THEN Err("SchemaMismatch")
    ELSE IF task_annotations.ret.kind = "absent"
    THEN Err("KeyError")
    ELSE LET return_types == ReturnTypes(task_annotations.ret)
             inputs_map   == get_variable_map(task_annotations.params)
             outputs_map  == get_variable_map_from_lists(output_names, return_types)
         IN IF Len(output_names) > Len(return_types)
            THEN Err("SchemaMismatch")
            ELSE IF ~inputs_map.ok THEN inputs_map
            ELSE IF ~outputs_map.ok THEN outputs_map
            ELSE Ok(TypedInterface(inputs_map.val, outputs_map.val))

get_interface_from_task_info(task_annotations, output_names) ==
    IF task_annotations.ret.kind = "absent" /\ Len(output_names) # 0
    THEN Err("SchemaMismatch")
    ELSE IF task_annotations.ret.kind = "absent"
    THEN Err("KeyError")                  \* task_annotations['return']
    ELSE LET return_types == ReturnTypes(task_annotations.ret)
             inputs_map   == get_variable_map(task_annotations.params)
             outputs_map  == get_variable_map_from_lists(output_names, return_types)
         IN IF Len(output_names) # Len(return_types)
            THEN Err("SchemaMismatch")
            ELSE IF ~inputs_map.ok THEN inputs_map
            ELSE IF ~outputs_map.ok THEN outputs_map
            ELSE Ok(TypedInterface(inputs_map.val, outputs_map.val))

(***************************************************************************)
(* SpecInterface: get_interface_from_task_info on bounded inputs.          *)
(***************************************************************************)
ParamNames == {"a", "b"}

OutputNames == {"x", "y"}

\* Host types of the model: three of the table and two that it lacks.
HostTypes == {"int", "bool", "str", "list", "NoneType"}

ParamTypes == {"int", "list"}

ReturnAnnotations ==
    {[kind |-> "absent"]}
    \cup {[kind |-> "type", type |-> t] : t \in HostTypes}
    \cup {[kind |-> "tuple", types |-> ts] : ts \in SeqsUpTo({"int", "list"}, MaxNames)}

Annotations ==
    {[params |-> p, ret |-> r] :
        p \in UNION {[D -> ParamTypes] : D \in SUBSET ParamNames},
        r \in ReturnAnnotations}

IfaceInputs ==
    {[annotations |-> a, output_names |-> o] :
        a \in Annotations, o \in SeqsUpTo(OutputNames, MaxNames)}

NoIfaceInput == [annotations |-> None, output_names |-> <<>>]

BuildInterface ==
    /\ iface_out = Pending
    /\ iface_in \in IfaceInputs
    /\ iface_out' = get_interface_from_task_info(iface_in.annotations,
                                                 iface_in.output_names)
    /\ UNCHANGED iface_in
    /\ UNCHANGED notIface


(***************************************************************************)
(* Tasks (stuff.py, task and PythonTask).                                  *)
(***************************************************************************)
\* The outputs= argument of a decorator: a list of names, or None (the default).
NoOutputs == [none |-> TRUE, names |-> <<>>]

Outputs(names) == [none |-> FALSE, names |-> names]

\* `outputs or []`
OrEmpty(outputs) == IF outputs.none THEN <<>> ELSE outputs.names

PythonTask(task_function, interface, outputs) ==
    [name |-> task_function, kind |-> "task", interface |-> interface,
     _outputs |-> outputs]

\* task.wrapper: the interface is built once, when the task is defined.
task(fn, outputs) ==
    LET interface == get_interface_from_task_info(fn.annotations, OrEmpty(outputs))
    IN IF ~interface.ok THEN interface
       ELSE Ok(PythonTask(fn.name, interface.val, outputs))

IntType == [kind |-> "type", type |-> "int"]

\* The decorated task functions of the model, with their outputs= lists.
TaskDefs ==
    { [fn |-> [name |-> "add",
               annotations |-> [params |-> [k \in {"a", "b"} |-> "int"],
                                ret |-> IntType]],
       outputs |-> Outputs(<<"sum">>)],
      [fn |-> [name |-> "split",
               annotations |-> [params |-> [k \in {"a"} |-> "int"],
                                ret |-> [kind |-> "tuple", types |-> <<"int", "int">>]]],
       outputs |-> Outputs(<<"x", "y">>)],
      [fn |-> [name |-> "noop",
               annotations |-> [params |-> [k \in {} |-> "int"],
                                ret |-> [kind |-> "tuple", types |-> <<>>]]],
       outputs |-> NoOutputs],
      [fn |-> [name |-> "broken",
               annotations |-> [params |-> [k \in {} |-> "int"], ret |-> IntType]],
       outputs |-> Outputs(<<"x", "y">>)] }

\* The tasks whose definition succeeded.
Tasks == {task(d.fn, d.outputs).val : d \in {e \in TaskDefs : task(e.fn, e.outputs).ok}}

\* An SdkWorkflow used as a sub-workflow node; only its interface matters here.
SubWorkflows ==
    { [name |-> "subwf", kind |-> "workflow",
       interface |-> TypedInterface([k \in {"a", "b"} |-> Variable("INTEGER", k)],
                                    [k \in {"x"} |-> Variable("INTEGER", k)])] }

(***************************************************************************)
(* Values, bindings and nodes.                                             *)
(***************************************************************************)
\* A literal argument, and a handle on output var of the node numbered node.
Literal == [node |-> 0, var |-> None]

Handle(n, v) == [node |-> n, var |-> v]

Binding(var, binding) == [var |-> var, binding |-> binding]

\* interface.create_bindings_for_inputs lives in flytekit/common/interface.py:
\* one binding per keyword argument, every key a declared input, and the nodes
\* the argument handles point at as upstream nodes.  The order of the returned
\* list is the order of the keyword arguments: the callers sort it.
create_bindings_for_inputs(interface, kwargs) ==
    IF \E i \in DOMAIN kwargs : kwargs[i].var \notin DOMAIN interface.inputs
    THEN Err("UnknownInput")
    ELSE Ok([bindings |-> [i \in DOMAIN kwargs |->
                              Binding(kwargs[i].var, kwargs[i].val)],
             upstream_nodes |-> {kwargs[i].val.node : i \in DOMAIN kwargs} \ {0}])

\* sorted(bindings, key=lambda b: b.var): a stable sort on var.
RECURSIVE SortFrom(_, _)
SortFrom(bindings, i) ==
    IF i > Len(NameOrder) THEN <<>>
    ELSE SelectSeq(bindings, LAMBDA b : b.var = NameOrder[i])
         \o SortFrom(bindings, i + 1)

\* The bindings as create_bindings_for_inputs returned them.
unsorted(bindings) == bindings

sorted_by_var(bindings) == SortFrom(bindings, 1)

\* _nodes.SdkNode(id=..., bindings=..., upstream_nodes=..., sdk_task= / sdk_workflow=);
\* kwargs records the keyword arguments of the call that made the node.
SdkNode(id, bindings, upstream_nodes, executable, kwargs) ==
    [id |-> id, bindings |-> bindings, upstream_nodes |-> upstream_nodes,
     executable |-> executable.name, kind |-> executable.kind, kwargs |-> kwargs]

\* nodes.OutputParameterMapper(outputs, sdk_node): one handle per declared
\* output, each on the same node.
OutputParameterMapper(outputs, n) == [v \in DOMAIN outputs |-> Handle(n, v)]

(***************************************************************************)
(* Invocations.  A call gives its caller a value or an exception (kind,    *)
(* items, err); new are the nodes it created, resolved whether it got as   *)
(* far as create_bindings_for_inputs.                                      *)
(***************************************************************************)
Outcome(kind, items, err, new, resolved) ==
    [kind |-> kind, items |-> items, err |-> err, new |-> new,
     resolved |-> resolved]

Raise(err, new, resolved) == Outcome("raise", <<>>, err, new, resolved)

\* `len(self._outputs) > 0` where the code has `> 1`.
WrapOutputsAlwaysTuple(outputs, ppp, new) ==
    IF outputs.none
    THEN Raise("TypeError", new, TRUE)
    ELSE IF Len(outputs.names) > 0
    THEN Outcome("tuple", [i \in 1..Len(outputs.names) |-> ppp[outputs.names[i]]],
                 "none", new, TRUE)
    ELSE Raise("IndexError", new, TRUE)

\* Lines 196-204: a tuple of handles for more than one declared output,
\* the handle itself otherwise.
WrapOutputs(outputs, ppp, new) ==
    IF outputs.none                                 \* len(None)
    THEN Raise("TypeError", new, TRUE)
    ELSE IF Len(outputs.names) > 1
    THEN Outcome("tuple", [i \in 1..Len(outputs.names) |-> ppp[outputs.names[i]]],
                 "none", new, TRUE)
    ELSE IF Len(outputs.names) = 0                  \* self._outputs[0]
    THEN Raise("IndexError", new, TRUE)
    ELSE Outcome("handle", <<ppp[outputs.names[1]]>>, "none", new, TRUE)

\* Lines 176-204: the compile-mode branch once the arguments are accepted.
PythonTaskCompile(self, kwargs) ==
    LET r == create_bindings_for_inputs(self.interface, kwargs)
    IN IF ~r.ok THEN Raise(r.err, <<>>, TRUE)
       ELSE LET sdk_node == SdkNode(None, sorted_by_var(r.val.bindings),
                                    r.val.upstream_nodes, self, kwargs)
                ppp      == OutputParameterMapper(self.interface.outputs,
                                                  Len(nodes) + 1)
            IN WrapOutputs(self._outputs, ppp, <<sdk_node>>)

\* The compile-mode branch without the test of lines 168-172.
PythonTaskCallUnchecked(self, nargs, kwargs) ==
    IF x = 1
    THEN PythonTaskCompile(self, kwargs)
    ELSE Outcome("local", <<>>, "none", <<>>, FALSE)

\* The compile-mode branch taken whatever the flag says.
PythonTaskCallNoDispatch(self, nargs, kwargs) ==
    IF nargs > 0
    THEN Raise("InvalidInvocation", <<>>, FALSE)
    ELSE PythonTaskCompile(self, kwargs)

\* PythonTask.__call__
PythonTask__call__(self, nargs, kwargs) ==
    IF x = 1
    THEN IF nargs > 0
         THEN Raise("InvalidInvocation", <<>>, FALSE)
         ELSE PythonTaskCompile(self, kwargs)
    ELSE Outcome("local", <<>>, "none", <<>>, FALSE)  \* self._task_function(...)

\* Lines 252-263 of workflow.py: the node itself is returned.
SdkWorkflowNode(self, input_map) ==
    LET r == create_bindings_for_inputs(self.interface, input_map)
    IN IF ~r.ok THEN Raise(r.err, <<>>, TRUE)
       ELSE LET node == SdkNode(None, sorted_by_var(r.val.bindings),
                                r.val.upstream_nodes, self, input_map)
            IN Outcome("node", <<Handle(Len(nodes) + 1, None)>>, "none",
                       <<node>>, TRUE)

\* SdkWorkflow.__call__ (workflow.py)
SdkWorkflow__call__(self, nargs, input_map) ==
    IF nargs > 0
    THEN Raise("InvalidInvocation", <<>>, FALSE)
    ELSE SdkWorkflowNode(self, input_map)

(***************************************************************************)
(* The arguments the model invokes tasks and workflows with.               *)
(***************************************************************************)
Entity(name) == CHOOSE e \in Tasks \cup SubWorkflows : e.name = name

\* The output handles an earlier task invocation returned.
HandlesOf(n) ==
    IF nodes[n].kind = "task"
    THEN {Handle(n, v) : v \in DOMAIN Entity(nodes[n].executable).interface.outputs}
    ELSE {}

Values == {Literal} \cup UNION {HandlesOf(n) : n \in DOMAIN nodes}

\* Keyword arguments over the names KW, in every order they can be written in.
KwargsOver(KW) ==
    UNION {{[i \in DOMAIN p |-> [var |-> p[i], val |-> vals[p[i]]]] :
               p \in Perms(K), vals \in [K -> Values]} : K \in SUBSET KW}

\* Invoking a task or a workflow raises into the caller or returns to it.
Invoke(op, self, nargs, kwargs, c) ==
    /\ nodes' = nodes \o c.new
    /\ ret' = [op |-> op, callee |-> self.name, mode |-> x, nargs |-> nargs,
               nkwargs |-> Len(kwargs), kind |-> c.kind, items |-> c.items,
               err |-> c.err, created |-> Len(nodes') - Len(nodes),
               resolved |-> c.resolved]
    /\ exc' = IF c.kind = "raise" THEN c.err ELSE "none"

TaskCallWith(KW) ==
    \E self \in Tasks, nargs \in 0..MaxArgs, kwargs \in KwargsOver(KW) :
        /\ exc = "none"
        /\ Len(nodes) < MaxNodes
        /\ Invoke("task", self, nargs, kwargs,
                  PythonTask__call__(self, nargs, kwargs))
        /\ UNCHANGED <<x, stack>>
        /\ UNCHANGED notBuild

SubWorkflowCallWith(KW) ==
    \E self \in SubWorkflows, nargs \in 0..MaxArgs, kwargs \in KwargsOver(KW) :
        /\ exc = "none"
        /\ Len(nodes) < MaxNodes
        /\ Invoke("workflow", self, nargs, kwargs,
                  SdkWorkflow__call__(self, nargs, kwargs))
        /\ UNCHANGED <<x, stack>>
        /\ UNCHANGED notBuild

(***************************************************************************)
(* The workflow decorator (stuff.py, workflow.wrapper).  A frame of stack  *)
(* is one wrapper invocation whose builder function fn is running.         *)
(***************************************************************************)
\* Builder functions: their annotated parameters, and whether each has a
\* default value (fn is called with no arguments).
BuilderFns ==
    {[params |-> p, defaults |-> d] :
        p \in UNION {[D -> ParamTypes] : D \in SUBSET {"a"}}, d \in BOOLEAN}

WorkflowOutputChoices == {NoOutputs} \cup {Outputs(o) : o \in SeqsUpTo({"x"}, MaxExprs)}

\* How a wrapper invocation was left.
WrapperLeft(how, old_setting, flag, nexprs, outputs, pairs, err) ==
    [op |-> "wrapper", how |-> how, old |-> old_setting, x |-> flag,
     nexprs |-> nexprs, outputs |-> outputs, pairs |-> pairs, err |-> err]

\* Lines 86-113: save the flag, set it, map the inputs and call fn().
WfEnter ==
    \E fn \in BuilderFns, outputs \in WorkflowOutputChoices :
        /\ exc = "none"
        /\ Len(stack) < MaxDepth
        /\ x' = 1
        /\ LET inputs_map == get_variable_map(fn.params)
               failure    == IF ~inputs_map.ok THEN inputs_map.err
                             ELSE IF DOMAIN fn.params # {} /\ ~fn.defaults
                             THEN "TypeError"        \* fn() lacks an argument
                             ELSE "none"
           IN IF failure # "none"
              THEN /\ exc' = failure
                   /\ ret' = WrapperLeft("raised", x, x', -1, outputs, <<>>, failure)
                   /\ UNCHANGED stack
              ELSE /\ stack' = Append(stack, [old_setting |-> x, outputs |-> outputs])
                   /\ ret' = [op |-> "enter"]
                   /\ UNCHANGED exc
        /\ UNCHANGED nodes
        /\ UNCHANGED notBuild

\* The builder function raises an exception of its own.
BodyRaise ==
    /\ exc = "none"
    /\ stack # <<>>
    /\ exc' = "UserError"
    /\ ret' = [op |-> "raise"]
    /\ UNCHANGED <<x, stack, nodes>>
    /\ UNCHANGED notBuild

\* An exception leaves fn() and, nothing in wrapper catching it, the wrapper.
Unwind ==
    /\ exc # "none"
    /\ stack # <<>>
    /\ LET top == stack[Len(stack)]
       IN ret' = WrapperLeft("raised", top.old_setting, x, -1, top.outputs, <<>>, exc)
    /\ stack' = SubSeq(stack, 1, Len(stack) - 1)
    /\ UNCHANGED <<x, exc, nodes>>
    /\ UNCHANGED notBuild

\* The caller (an enclosing builder function, or the module) handles it.
Catch ==
    /\ exc # "none"
    /\ exc' = "none"
    /\ ret' = [op |-> "catch"]
    /\ UNCHANGED <<x, stack, nodes>>
    /\ UNCHANGED notBuild

\* The first failure of the loop of lines 128-135 over the returned
\* expressions: line 133 reads out.var, then outputs[i].
RECURSIVE OutputLoop(_, _, _)
OutputLoop(args, outputs, i) ==
    IF i > Len(args) THEN "none"
    ELSE IF args[i] = Literal THEN "AttributeError"
    ELSE IF outputs.none THEN "TypeError"
    ELSE IF i > Len(outputs.names) THEN "IndexError"
    ELSE OutputLoop(args, outputs, i + 1)

\* What a builder function of the model returns in WorkflowOutputs(...):
\* literals and the handles its latest invocation returned.
ExprValues ==
    {Literal} \cup (IF nodes = <<>> THEN {} ELSE HandlesOf(Len(nodes)))

\* The wrapper leaving with the flag cleared where line 140 restores
\* old_setting.
WfReturnClearsFlag ==
    \E args \in SeqsUpTo(ExprValues, MaxExprs) :
        /\ exc = "none"
        /\ stack # <<>>
        /\ LET top     == stack[Len(stack)]
               failure == OutputLoop(args, top.outputs, 1)
           IN IF failure # "none"
              THEN /\ exc' = failure
                   /\ ret' = WrapperLeft("raised", top.old_setting, x, Len(args),
                                         top.outputs, <<>>, failure)
                   /\ UNCHANGED x
              ELSE /\ x' = 0
                   /\ ret' = WrapperLeft("returned", top.old_setting, x', Len(args),
                                         top.outputs,
                                         [i \in DOMAIN args |->
                                             <<args[i].var, top.outputs.names[i]>>],
                                         "none")
                   /\ UNCHANGED exc
        /\ stack' = SubSeq(stack, 1, Len(stack) - 1)
        /\ UNCHANGED nodes
        /\ UNCHANGED notBuild

\* Lines 113-141: fn() returns WorkflowOutputs(*args).
WfReturn ==
    \E args \in SeqsUpTo(ExprValues, MaxExprs) :
        /\ exc = "none"
        /\ stack # <<>>
        /\ LET top     == stack[Len(stack)]
               failure == OutputLoop(args, top.outputs, 1)
           IN IF failure # "none"
              THEN /\ exc' = failure
                   /\ ret' = WrapperLeft("raised", top.old_setting, x, Len(args),
                                         top.outputs, <<>>, failure)
                   /\ UNCHANGED x
              ELSE /\ x' = top.old_setting
                   /\ ret' = WrapperLeft("returned", top.old_setting, x', Len(args),
                                         top.outputs,
                                         [i \in DOMAIN args |->
                                             <<args[i].var, top.outputs.names[i]>>],
                                         "none")
                   /\ UNCHANGED exc
        /\ stack' = SubSeq(stack, 1, Len(stack) - 1)
        /\ UNCHANGED nodes
        /\ UNCHANGED notBuild

\* fn() returns an object without _args (None, a bare tuple): line 128
\* raises AttributeError.
WfReturnOther ==
    /\ exc = "none"
    /\ stack # <<>>
    /\ LET top == stack[Len(stack)]
       IN ret' = WrapperLeft("raised", top.old_setting, x, -1, top.outputs, <<>>,
                             "AttributeError")
    /\ exc' = "AttributeError"
    /\ stack' = SubSeq(stack, 1, Len(stack) - 1)
    /\ UNCHANGED <<x, nodes>>
    /\ UNCHANGED notBuild

(***************************************************************************)
(* Spec: the decorators and the invocations made under them.               *)
(***************************************************************************)
IfaceIdle == /\ iface_in = NoIfaceInput
             /\ iface_out = Pending

RegIdle == /\ wfid = <<>>
           /\ plane = <<>>
           /\ reg = [op |-> "none"]

TmplIdle == /\ tmpl_in = [op |-> "none"]
            /\ tmpl_out = Pending

BuildIdle == /\ x = 0
             /\ stack = <<>>
             /\ exc = "none"
             /\ nodes = <<>>
             /\ ret = [op |-> "none"]

InitBuild ==
    /\ x \in {0, 1}
    /\ stack = <<>>
    /\ exc = "none"
    /\ nodes = <<>>
    /\ ret = [op |-> "none"]

Init == InitBuild /\ IfaceIdle /\ RegIdle /\ TmplIdle

TaskCall == TaskCallWith({})

SubWorkflowCall == SubWorkflowCallWith({})

Next ==
    \/ WfEnter
    \/ WfReturn
    \/ WfReturnOther
    \/ BodyRaise
    \/ Unwind
    \/ Catch
    \/ TaskCall
    \/ SubWorkflowCall

Spec == Init /\ [][Next]_vars

(***************************************************************************)
(* SpecCalls: invocations alone, with every keyword order.                 *)
(***************************************************************************)
TaskCallAnyOrder == TaskCallWith({"a", "b"})

SubWorkflowCallAnyOrder == SubWorkflowCallWith({"a", "b"})

NextCalls ==
    \/ TaskCallAnyOrder
    \/ SubWorkflowCallAnyOrder
    \/ Catch

SpecCalls == Init /\ [][NextCalls]_vars

(***************************************************************************)
(* SpecInterface                                                           *)
(***************************************************************************)
InitInterface ==
    /\ iface_in \in IfaceInputs
    /\ iface_out = Pending
    /\ BuildIdle /\ RegIdle /\ TmplIdle

NextInterface == BuildInterface

SpecInterface == InitInterface /\ [][NextInterface]_vars


(***************************************************************************)
(* Registration (workflow.py, SdkWorkflow.register).                       *)
(***************************************************************************)
\* _identifier.Identifier(ResourceType.WORKFLOW, project, domain, name, version)
Identifier(resource_type, project, domain, name, version) ==
    [resource_type |-> resource_type, project |-> project, domain |-> domain,
     name |-> name, version |-> version]

\* str(id_to_register)
IdentifierStr(id) ==
    <<id.resource_type, id.project, id.domain, id.name, id.version>>

\* The nodes of the workflows of the model.  sub_workflow_ref says that
\* n.workflow_node and n.workflow_node.sub_workflow_ref are both set;
\* executable is n.executable_sdk_object, by name.
TaskNode == [kind |-> "task", sub_workflow_ref |-> FALSE, executable |-> "add"]

LaunchPlanNode == [kind |-> "workflow", sub_workflow_ref |-> FALSE, executable |-> "lp"]

BranchNode == [kind |-> "branch", sub_workflow_ref |-> FALSE, executable |-> None]

SubWorkflowNode(e) == [kind |-> "workflow", sub_workflow_ref |-> TRUE, executable |-> e]

WorkflowNodes ==
    [ leaf    |-> <<TaskNode>>,
      mid     |-> <<TaskNode, SubWorkflowNode("leaf"), BranchNode>>,
      top     |-> <<SubWorkflowNode("mid"), LaunchPlanNode, SubWorkflowNode("leaf")>>,
      bad     |-> <<SubWorkflowNode(None)>>,
      deepbad |-> <<TaskNode, SubWorkflowNode("bad")>>,
      mistyped |-> <<SubWorkflowNode("add")>> ]

\* entity_type_text of an executable object
entity_type_text(e) == IF e \in DOMAIN WorkflowNodes THEN "Workflow" ELSE "Task"

\* get_sub_workflows without the recursive call of line 127.
RECURSIVE SubWorkflowsDirect(_, _)
SubWorkflowsDirect(self, i) ==
    IF i > Len(WorkflowNodes[self]) THEN Ok(<<>>)
    ELSE LET n == WorkflowNodes[self][i]
         IN IF n.sub_workflow_ref
            THEN IF n.executable # None /\ entity_type_text(n.executable) = "Workflow"
                 THEN LET rest == SubWorkflowsDirect(self, i + 1)
                      IN IF ~rest.ok THEN rest
                         ELSE Ok(<<n.executable>> \o rest.val)
                 ELSE Err("FlyteSystemException")
            ELSE SubWorkflowsDirect(self, i + 1)

\* get_sub_workflows, node by node from node i on.
RECURSIVE SubWorkflowsFrom(_, _)
SubWorkflowsFrom(self, i) ==
    IF i > Len(WorkflowNodes[self]) THEN Ok(<<>>)
    ELSE LET n == WorkflowNodes[self][i]
         IN IF n.sub_workflow_ref
            THEN IF n.executable # None /\ entity_type_text(n.executable) = "Workflow"
                 THEN LET inner == SubWorkflowsFrom(n.executable, 1)
                          rest  == SubWorkflowsFrom(self, i + 1)
                      IN IF ~inner.ok THEN inner
                         ELSE IF ~rest.ok THEN rest
                         ELSE Ok(<<n.executable>> \o inner.val \o rest.val)
                 ELSE Err("FlyteSystemException")
            ELSE SubWorkflowsFrom(self, i + 1)

get_sub_workflows(self) == SubWorkflowsFrom(self, 1)

\* validate (lines 236-238) does nothing.
validate(self) == Ok(None)

\* What create_workflow can answer for an id, given what the plane holds.
Answers(id) ==
    IF id \in DOMAIN plane THEN {"AlreadyExists", "RemoteError"}
    ELSE {"ack", "RemoteError"}

RegisterResult(id, outcome, value, err) ==
    [id |-> id, outcome |-> outcome, value |-> value, err |-> err]

\* The handler of line 219 raises again where the code has `pass`.
AlreadyExistsPropagates(id_to_register) ==
    RegisterResult(id_to_register, "raised", None, "AlreadyExists")

\* Lines 219-220: except FlyteEntityAlreadyExistsException: pass
OnAlreadyExists(id_to_register) ==
    RegisterResult(id_to_register, "returned", None, "none")

\* The handler of lines 221-223 without `self._id = old_id`.
OnFailureNoRollback(old_id, id_to_register, cause) ==
    RegisterResult(id_to_register, "raised", None, cause)

\* Lines 221-223: except Exception: self._id = old_id; raise
OnFailure(old_id, id_to_register, cause) ==
    RegisterResult(old_id, "raised", None, cause)

\* The try block with create_workflow sent before the sub-workflows are
\* collected.
TryBlockCreateFirst(self, client_ok, answer) ==
    LET sub_workflows == get_sub_workflows(self)
    IN IF ~client_ok THEN [cause |-> "ClientError", calls |-> 0, sent |-> <<>>]
       ELSE [cause |-> IF answer # "ack" THEN answer
                       ELSE IF sub_workflows.ok THEN "none" ELSE sub_workflows.err,
             calls |-> 1,
             sent |-> IF sub_workflows.ok THEN sub_workflows.val ELSE <<>>]

\* The first exception raised inside the try block of lines 211-218:
\* building the client, collecting the sub-workflows, create_workflow.
TryBlock(self, client_ok, answer) ==
    LET sub_workflows == get_sub_workflows(self)
    IN IF ~client_ok THEN [cause |-> "ClientError", calls |-> 0, sent |-> <<>>]
       ELSE IF ~sub_workflows.ok
       THEN [cause |-> sub_workflows.err, calls |-> 0, sent |-> <<>>]
       ELSE [cause |-> IF answer = "ack" THEN "none" ELSE answer, calls |-> 1,
             sent |-> sub_workflows.val]

\* register without the assignments of lines 210 and 217: the workflow
\* keeps the id it had.
RegisterKeepsOldId(self, id_to_register, t) ==
    LET old_id == wfid[self]
    IN IF t.cause = "none"
       THEN RegisterResult(old_id, "returned", IdentifierStr(id_to_register), "none")
       ELSE IF t.cause = "AlreadyExists"
       THEN RegisterResult(old_id, "returned", None, "none")
       ELSE OnFailure(old_id, id_to_register, t.cause)

\* SdkWorkflow.register: the id the workflow is left with and what the
\* caller gets.
register(self, id_to_register, t) ==
    LET old_id == wfid[self]
    IN IF t.cause = "none"
       THEN RegisterResult(id_to_register, "returned", IdentifierStr(id_to_register),
                           "none")
       ELSE IF t.cause = "AlreadyExists" THEN OnAlreadyExists(id_to_register)
       ELSE OnFailure(old_id, id_to_register, t.cause)

\* The workflow objects that get registered, and the names they go under.
Registered == {"top", "mid", "deepbad"}

RegisterNames == {"n1", "n2"}

\* The id the constructor gives a workflow (lines 63-73).
InitialId(w) ==
    Identifier("WORKFLOW", "proj", "dom",
               CASE w = "top" -> "uuid-top" [] w = "mid" -> "uuid-mid"
                 [] OTHER -> "uuid-other",
               "v1")

Register ==
    \E self \in Registered, name \in RegisterNames, client_ok \in BOOLEAN :
        LET id_to_register == Identifier("WORKFLOW", "proj", "dom", name, "v1")
        IN \E answer \in Answers(id_to_register) :
            LET v == validate(self)
                t == TryBlock(self, client_ok, answer)
                r == register(self, id_to_register, t)
            IN /\ v.ok
               /\ wfid' = [wfid EXCEPT ![self] = r.id]
               /\ plane' = IF t.calls = 1 /\ t.cause = "none"
                           THEN [i \in DOMAIN plane \cup {id_to_register} |->
                                    IF i = id_to_register THEN self ELSE plane[i]]
                           ELSE plane
               /\ reg' = [op |-> "register", wf |-> self, id |-> id_to_register,
                          old_id |-> wfid[self], outcome |-> r.outcome,
                          value |-> r.value, err |-> r.err, cause |-> t.cause,
                          calls |-> t.calls, sent |-> t.sent,
                          plane_changed |-> plane' # plane,
                          others_changed |->
                              \E w \in Registered \ {self} : wfid'[w] # wfid[w]]
               /\ UNCHANGED notReg

\* get_sub_workflows() called on a workflow object.
GetSubWorkflows ==
    \E self \in DOMAIN WorkflowNodes :
        /\ reg' = [op |-> "get_sub_workflows", wf |-> self,
                   result |-> get_sub_workflows(self)]
        /\ UNCHANGED <<wfid, plane>>
        /\ UNCHANGED notReg

InitRegister ==
    /\ wfid = [w \in Registered |-> InitialId(w)]
    /\ plane = <<>>
    /\ reg = [op |-> "none"]
    /\ BuildIdle /\ IfaceIdle /\ TmplIdle

NextRegister ==
    \/ Register
    \/ GetSubWorkflows

SpecRegister == InitRegister /\ [][NextRegister]_vars

(***************************************************************************)
(* Construction and promotion (workflow.py, SdkWorkflow.__init__ and       *)
(* promote_from_model).                                                    *)
(*                                                                         *)
(* Live nodes are objects: heap maps an object to its id (None while       *)
(* unassigned), its upstream_nodes (objects) and its bindings.  A wire     *)
(* template lists model nodes [id, upstream_node_ids, inputs].             *)
(***************************************************************************)
MaxObjs      == 2     \* live node objects given to the constructor
MaxTmplNodes == 2     \* nodes of a wire template

\* _constants.START_NODE_ID, _constants.END_NODE_ID
START_NODE_ID == "start-node"

END_NODE_ID == "end-node"

\* The test of lines 53-60: some upstream node of a listed node has no id.
HasUnassignedUpstream(heap, node_list) ==
    \E i \in DOMAIN node_list :
        \E upstream \in heap[node_list[i]].upstream_nodes :
            heap[upstream].id = None

\* SdkWorkflow.__init__: the template fields are assembled after the test.
SdkWorkflow__init__(heap, node_list, interface, output_bindings, id) ==
    IF HasUnassignedUpstream(heap, node_list)
    THEN Err("FlyteAssertion")
    ELSE Ok([id |-> IF id # None THEN id ELSE "uuid4",
             interface |-> interface,
             nodes |-> node_list,
             outputs |-> output_bindings,
             heap |-> heap])

\* get_non_system_nodes
get_non_system_nodes(model_nodes) ==
    SelectSeq(model_nodes, LAMBDA n : n.id \notin {START_NODE_ID, END_NODE_ID})

\* nodes.SdkNode.promote_from_model is in flytekit/common/nodes.py: the
\* promoted node has the model node's id and bindings, no upstream node
\* yet, and the model node's upstream ids as its declared upstream_node_ids.
SdkNodePromote(n) ==
    [id |-> n.id, bindings |-> n.inputs, upstream_nodes |-> {},
     upstream_node_ids |-> n.upstream_node_ids]

\* Lines 178-180: the dict keeps, for an id, the node listed last, at the
\* position of the id's first occurrence.
NodeMapKeys(model_nodes) == [i \in DOMAIN model_nodes |-> model_nodes[i].id]

RECURSIVE Dedup(_)
Dedup(ids) ==
    IF ids = <<>> THEN <<>>
    ELSE LET front == Dedup(SubSeq(ids, 1, Len(ids) - 1))
             k     == ids[Len(ids)]
         IN IF k \in Range(front) THEN front ELSE Append(front, k)

NodeMap(model_nodes) ==
    LET ids     == {model_nodes[i].id : i \in DOMAIN model_nodes}
        last(k) == CHOOSE i \in DOMAIN model_nodes :
                       /\ model_nodes[i].id = k
                       /\ \A j \in DOMAIN model_nodes :
                              model_nodes[j].id = k => j <= i
    IN [k \in ids |-> SdkNodePromote(model_nodes[last(k)])]

\* Lines 183-187 without the failing lookup: an unknown upstream id is skipped.
WireUpstreamLenient(node_map, model_nodes) ==
    Ok([k \in DOMAIN node_map |->
          [node_map[k] EXCEPT !.upstream_nodes =
              Range(node_map[k].upstream_node_ids) \cap DOMAIN node_map]])

\* Lines 183-187: node_map[upstream_id] raises KeyError for an id that is
\* not a key; otherwise `current << upstream_node` records the dependency.
WireUpstream(node_map, model_nodes) ==
    IF \E i \in DOMAIN model_nodes :
           \E upstream_id \in Range(node_map[model_nodes[i].id].upstream_node_ids) :
               upstream_id \notin DOMAIN node_map
    THEN Err("KeyError")
    ELSE Ok([k \in DOMAIN node_map |->
               [node_map[k] EXCEPT !.upstream_nodes =
                   Range(node_map[k].upstream_node_ids)]])

\* SdkWorkflow.promote_from_model; the promoted nodes are objects named by
\* their ids.
promote_from_model(base_model) ==
    LET base_model_non_system_nodes == get_non_system_nodes(base_model.nodes)
        node_map == NodeMap(base_model_non_system_nodes)
        wired    == WireUpstream(node_map, base_model_non_system_nodes)
    IN IF ~wired.ok THEN wired
       ELSE SdkWorkflow__init__(
                wired.val,
                Dedup(NodeMapKeys(base_model_non_system_nodes)),
                base_model.interface, base_model.outputs, base_model.id)

(***************************************************************************)
(* SpecTemplate: the constructor and promote_from_model on bounded inputs. *)
(***************************************************************************)
Objs == 1..MaxObjs

\* The id an object has once it is assigned one.
ObjIds == <<"n1", "n2", "n3", "n4">>

\* Object graphs: a node's upstream nodes were created before it.
Heaps ==
    {h \in [Objs -> [id : {None} \cup Range(ObjIds), upstream_nodes : SUBSET Objs,
                     bindings : {<<>>}]] :
        \A o \in Objs :
            /\ \A u \in h[o].upstream_nodes : u < o
            /\ h[o].id \in {None, ObjIds[o]}}

NodeLists == UNION {Perms(S) : S \in SUBSET Objs}

UnitInterface == TypedInterface(<<>>, <<>>)

ConstructInputs ==
    {[op |-> "construct", heap |-> h, nodes |-> l, id |-> i] :
        h \in Heaps, l \in NodeLists, i \in {None, "wf"}}

\* Wire templates: node ids are unique within a template.
NodeIds == {START_NODE_ID, END_NODE_ID, "n1", "n2", "n3"}

UpstreamIdLists == {<<>>, <<"n1">>, <<"n2">>, <<START_NODE_ID>>}

ModelNodes ==
    {[id |-> i, upstream_node_ids |-> u,
      inputs |-> IF i = "n2" THEN <<Binding("a", Literal)>> ELSE <<>>] :
        i \in NodeIds, u \in UpstreamIdLists}

Templates ==
    {[id |-> "wf", interface |-> UnitInterface, outputs |-> <<>>, nodes |-> l] :
        l \in {t \in SeqsUpTo(ModelNodes, MaxTmplNodes) :
                  \A i, j \in DOMAIN t : i # j => t[i].id # t[j].id}}

PromoteInputs == {[op |-> "promote", template |-> t] : t \in Templates}

\* The wire form of a live node is built by the model classes of
\* flytekit/models: the node's id, the ids of its upstream nodes and its
\* bindings as inputs.
SdkNodeToModel(heap, o) ==
    [id |-> heap[o].id,
     upstream_node_ids |->
         SelectSeq(ObjIds, LAMBDA k : \E u \in heap[o].upstream_nodes : heap[u].id = k),
     inputs |-> heap[o].bindings]

\* SdkWorkflow.serialize: WorkflowSpec(self, sub_workflows).to_flyte_idl()
\* carries the workflow's template: id, interface, nodes and outputs.
serialize(self) ==
    [id |-> self.id, interface |-> self.interface, outputs |-> self.outputs,
     nodes |-> [i \in DOMAIN self.nodes |-> SdkNodeToModel(self.heap, self.nodes[i])]]

Construct ==
    /\ tmpl_in.op = "construct"
    /\ tmpl_out.err = "pending"
    /\ tmpl_out' = SdkWorkflow__init__(tmpl_in.heap, tmpl_in.nodes, UnitInterface,
                                       <<>>, tmpl_in.id)
    /\ UNCHANGED tmpl_in
    /\ UNCHANGED notTmpl

Promote ==
    /\ tmpl_in.op = "promote"
    /\ tmpl_out.err = "pending"
    /\ tmpl_out' = promote_from_model(tmpl_in.template)
    /\ UNCHANGED tmpl_in
    /\ UNCHANGED notTmpl

\* serialize() of a constructed workflow whose listed nodes all have their
\* ids, then promote_from_model of the template it produced.
RoundTrip ==
    /\ tmpl_in.op = "construct"
    /\ tmpl_out.ok
    /\ \A o \in Range(tmpl_out.val.nodes) : tmpl_out.val.heap[o].id # None
    /\ tmpl_in' = [op |-> "roundtrip", original |-> tmpl_out.val,
                   template |-> serialize(tmpl_out.val)]
    /\ tmpl_out' = promote_from_model(serialize(tmpl_out.val))
    /\ UNCHANGED notTmpl

InitTemplate ==
    /\ tmpl_in \in ConstructInputs \cup PromoteInputs
    /\ tmpl_out = Pending
    /\ BuildIdle /\ IfaceIdle /\ RegIdle

NextTemplate ==
    \/ Construct
    \/ Promote
    \/ RoundTrip

SpecTemplate == InitTemplate /\ [][NextTemplate]_vars

(***************************************************************************)
(* Properties of the decorators and of the invocations.                    *)
(***************************************************************************)

\* C1: whenever a workflow.wrapper invocation has been left, by return or
\* by an exception, nested or not, the compiling flag has the value it had
\* when the wrapper was entered.
C1_FlagRestored ==
    ret.op = "wrapper" => ret.x = ret.old

\* The declared output names of the task invoked last.
CalleeOutputs == Entity(ret.callee)._outputs

\* C4: a compile-mode task invocation with keyword arguments naming
\* declared inputs returns, for N > 1 declared output names, a tuple of N
\* handles, the i-th on the i-th declared name, all on the one node the
\* call created; for N = 1 it returns that one handle, not a tuple.
C4_OutputHandles ==
    ( /\ ret.op = "task"
      /\ ret.mode = 1
      /\ ret.nargs = 0
      /\ ret.err # "UnknownInput"
      /\ ~CalleeOutputs.none
      /\ Len(CalleeOutputs.names) >= 1 )
    => LET names == CalleeOutputs.names
       IN /\ ret.created = 1
          /\ ret.kind = IF Len(names) > 1 THEN "tuple" ELSE "handle"
          /\ Len(ret.items) = Len(names)
          /\ \A i \in DOMAIN names : ret.items[i] = Handle(Len(nodes), names[i])

C4_Witness ==
    /\ ret.op = "task"
    /\ ret.mode = 1
    /\ ret.nkwargs > 0
    /\ ret.kind = "tuple"
    /\ Len(ret.items) = 2
    /\ ret.items[1].var = "x" /\ ret.items[2].var = "y"

\* The bindings the keyword arguments kwargs stand for.
BindingsOf(kwargs) == {Binding(kwargs[i].var, kwargs[i].val) : i \in DOMAIN kwargs}

\* C5: the bindings stored on every node made by a compile-mode invocation
\* of a task or of a workflow are the bindings of its keyword arguments in
\* ascending order of variable name, and two nodes made from the same
\* keyword arguments, in whatever order, store the same binding sequence.
C5_BindingsSorted ==
    \A n \in DOMAIN nodes :
        /\ Range(nodes[n].bindings) = BindingsOf(nodes[n].kwargs)
        /\ Len(nodes[n].bindings) = Len(nodes[n].kwargs)
        /\ \A i, j \in DOMAIN nodes[n].bindings :
               i < j => StrLess(nodes[n].bindings[i].var, nodes[n].bindings[j].var)
        /\ \A m \in DOMAIN nodes :
               BindingsOf(nodes[m].kwargs) = BindingsOf(nodes[n].kwargs)
               => nodes[m].bindings = nodes[n].bindings

C5_Witness ==
    \E n, m \in DOMAIN nodes :
        /\ nodes[n].kind = "task" /\ nodes[m].kind = "workflow"
        /\ Len(nodes[n].kwargs) = 2
        /\ BindingsOf(nodes[m].kwargs) = BindingsOf(nodes[n].kwargs)
        /\ nodes[m].kwargs # nodes[n].kwargs
        /\ nodes[m].bindings = nodes[n].bindings

C7_PositionalRejected ==
    (ret.op \in {"task", "workflow"} /\ ret.mode = 1 /\ ret.nargs > 0)
    => /\ ret.kind = "raise"
       /\ ret.err = "InvalidInvocation"
       /\ ret.created = 0
       /\ ~ret.resolved

C7_Witness ==
    /\ ret.op = "task"
    /\ ret.mode = 1
    /\ ret.nargs > 0
    /\ ret.nkwargs = 2
    /\ ret.err = "InvalidInvocation"
    /\ exc = "InvalidInvocation"

\* The number of return types a return annotation stands for.
NumReturnTypes(r) == IF r.kind = "type" THEN 1 ELSE Len(r.types)

\* C8: get_interface_from_task_info raises SchemaMismatch when there is no
\* return annotation and output names are given, and when the number of
\* output names is not the number of return types, a single non-tuple
\* return type counting as one.
C8_SchemaMismatch ==
    iface_out.err # "pending"
    => LET r == iface_in.annotations.ret
           o == iface_in.output_names
       IN /\ (r.kind = "absent" /\ Len(o) # 0) => iface_out.err = "SchemaMismatch"
          /\ (r.kind # "absent" /\ Len(o) # NumReturnTypes(r))
                 => iface_out.err = "SchemaMismatch"

C8_Witness ==
    /\ iface_out.err = "SchemaMismatch"
    /\ iface_in.annotations.ret.kind = "type"
    /\ iface_in.output_names = <<"x", "y">>

\* C15: while a builder function runs, the one call fn() of its wrapper
\* not yet left, the flag is in compile mode, also after a workflow defined
\* inside the body has returned or raised; a task called in the body takes
\* the node-building branch and never runs its user function.
C15_CompileModeInBody ==
    stack # <<>>
    => /\ x = 1
       /\ \A i \in DOMAIN stack : i > 1 => stack[i].old_setting = 1
       /\ ret.op = "task" => (ret.mode = 1 /\ ret.kind # "local")

C15_Witness ==
    /\ Len(stack) = 1
    /\ ret.op = "wrapper"
    /\ ret.how = "returned"
    /\ ret.old = 1
    /\ x = 1
    /\ nodes # <<>>

\* The return types an annotation map stands for, none when it has no
\* return entry.
DeclaredReturnTypes(r) == IF r.kind = "absent" THEN <<>> ELSE ReturnTypes(r)

\* C16: for an annotation map and an output-name list to which neither
\* schema-mismatch condition applies and whose types are all in the type
\* table, a map with no return entry and no output names included, the
\* interface is built: its inputs are the annotated parameters and its
\* outputs pair the i-th output name with the i-th return type.
C16_InterfaceBuilt ==
    iface_out.err # "pending"
    => LET a     == iface_in.annotations
           o     == iface_in.output_names
           types == DeclaredReturnTypes(a.ret)
           table == SIMPLE_TYPE_LOOKUP_TABLE
       IN (/\ ~(a.ret.kind = "absent" /\ Len(o) # 0)
           /\ Len(o) = Len(types)
           /\ \A k \in DOMAIN a.params : a.params[k] \in DOMAIN table
           /\ \A i \in DOMAIN types : types[i] \in DOMAIN table)
          => /\ iface_out.ok
             /\ DOMAIN iface_out.val.inputs = DOMAIN a.params
             /\ \A k \in DOMAIN a.params :
                    iface_out.val.inputs[k].type = table[a.params[k]]
             /\ DOMAIN iface_out.val.outputs = Range(o)
             /\ \A i \in DOMAIN o :
                    (\A j \in DOMAIN o : o[j] = o[i] => j <= i)
                    => iface_out.val.outputs[o[i]].type = table[types[i]]


(***************************************************************************)
(* Properties of registration.                                             *)
(***************************************************************************)

\* C2: when register fails with an error other than already-exists, the
\* caller gets that same error and the workflow has the identifier it had
\* before the call.
C2_RollbackOnFailure ==
    (reg.op = "register" /\ reg.cause \notin {"none", "AlreadyExists"})
    => /\ reg.outcome = "raised"
       /\ reg.err = reg.cause
       /\ wfid[reg.wf] = reg.old_id

C2_Witness ==
    /\ reg.op = "register"
    /\ reg.cause = "RemoteError"
    /\ reg.calls = 1
    /\ reg.old_id # reg.id
    /\ reg.old_id \in DOMAIN plane
    /\ wfid[reg.wf] = reg.old_id

\* C3: when create_workflow answers AlreadyExists, register returns
\* normally and changes nothing the first registration of that id had
\* established: the control plane holds what it held, no other workflow's
\* identifier changes, and the workflow carries the identifier the control
\* plane holds (unchanged when the call repeats its own registration).
C3_AlreadyExistsNoOp ==
    (reg.op = "register" /\ reg.cause = "AlreadyExists")
    => /\ reg.outcome = "returned"
       /\ reg.err = "none"
       /\ ~reg.plane_changed
       /\ ~reg.others_changed
       /\ reg.id \in DOMAIN plane
       /\ wfid[reg.wf] = reg.id
       /\ reg.old_id = reg.id => wfid[reg.wf] = reg.old_id

C3_Witness ==
    /\ reg.op = "register"
    /\ reg.cause = "AlreadyExists"
    /\ reg.outcome = "returned"
    /\ reg.old_id = reg.id
    /\ plane[reg.id] = reg.wf


\* C12: a task call made while the flag is not in compile mode is the call
\* of the user function and creates no node; a task call made in compile
\* mode never runs the user function and, unless it is rejected for its
\* arguments (positional arguments, an undeclared input), creates exactly
\* one node, whose id is null.
C12_DispatchOnFlag ==
    ret.op = "task"
    => /\ ret.mode # 1 => (ret.kind = "local" /\ ret.created = 0 /\ exc = "none")
       /\ ret.mode = 1
          => /\ ret.kind # "local"
             /\ IF ret.nargs > 0 \/ ret.err \in {"InvalidInvocation", "UnknownInput"}
                THEN ret.created = 0
                ELSE ret.created = 1 /\ nodes[Len(nodes)].id = None

C12_Witness ==
    /\ ret.op = "task"
    /\ ret.mode = 1
    /\ ret.kind = "tuple"
    /\ ret.created = 1
    /\ nodes[Len(nodes)].id = None
    /\ Len(nodes) = 2

\* C13: one register call sends create_workflow to the client at most
\* once, and only when validation and get_sub_workflows have completed
\* without error, with the sub-workflows it collected; when either fails
\* no create_workflow is sent and the control plane is unchanged.
C13_CreateAfterLocalChecks ==
    reg.op = "register"
    => LET v    == validate(reg.wf)
           subs == get_sub_workflows(reg.wf)
       IN /\ reg.calls \in {0, 1}
          /\ reg.calls = 1 => (v.ok /\ subs.ok /\ reg.sent = subs.val)
          /\ (~v.ok \/ ~subs.ok) => (reg.calls = 0 /\ ~reg.plane_changed)

C13_Witness ==
    /\ reg.op = "register"
    /\ reg.wf = "deepbad"
    /\ ~get_sub_workflows(reg.wf).ok
    /\ reg.cause = "FlyteSystemException"
    /\ reg.outcome = "raised"
    /\ reg.calls = 0

\* C17: whenever register returns without raising, after a successful
\* create and after an already-exists answer alike, the workflow's id is
\* the identifier built from the arguments; the identifier's string is the
\* result exactly on the successful-create path, and the result is null on
\* the already-exists path.
C17_IdAfterReturn ==
    (reg.op = "register" /\ reg.outcome = "returned")
    => /\ wfid[reg.wf] = reg.id
       /\ reg.cause \in {"none", "AlreadyExists"}
       /\ IF reg.cause = "none"
          THEN reg.value = IdentifierStr(reg.id)
          ELSE reg.value = None

C17_Witness ==
    /\ reg.op = "register"
    /\ reg.outcome = "returned"
    /\ reg.cause = "AlreadyExists"
    /\ reg.old_id # reg.id
    /\ wfid[reg.wf] = reg.id
    /\ reg.value = None

\* The workflows the sub-workflow nodes of w refer to.
DirectSubWorkflows(w) ==
    {n.executable : n \in {m \in Range(WorkflowNodes[w]) :
                              m.sub_workflow_ref /\ m.executable \in DOMAIN WorkflowNodes}}

\* Some node of w has a sub-workflow reference and no workflow object.
HasUnresolvedRef(w) ==
    \E n \in Range(WorkflowNodes[w]) :
        n.sub_workflow_ref /\ n.executable \notin DOMAIN WorkflowNodes

RECURSIVE ReachableIn(_, _)
ReachableIn(S, k) ==
    IF k = 0 THEN S
    ELSE ReachableIn(S \cup UNION {DirectSubWorkflows(w) : w \in S}, k - 1)

\* The workflows referenced from w at any depth.
TransitiveSubWorkflows(w) ==
    ReachableIn(DirectSubWorkflows(w), Cardinality(DOMAIN WorkflowNodes))

RECURSIVE ConcatAll(_)
ConcatAll(seqs) ==
    IF seqs = <<>> THEN <<>> ELSE Head(seqs) \o ConcatAll(Tail(seqs))

\* C14: get_sub_workflows fails, with the system exception, exactly when
\* the workflow or a workflow it references at any depth has a node with a
\* sub-workflow reference and no workflow object; otherwise it returns the
\* workflows referenced at any depth: for each sub-workflow node in node
\* order, the referenced workflow followed by that workflow's own result.
\* Task, launch-plan and branch nodes contribute nothing.
C14_SubWorkflowsCollected ==
    reg.op = "get_sub_workflows"
    => LET w    == reg.wf
           r    == reg.result
           refs == SelectSeq(WorkflowNodes[w], LAMBDA n : n.sub_workflow_ref)
       IN /\ r.ok <=> \A v \in {w} \cup TransitiveSubWorkflows(w) : ~HasUnresolvedRef(v)
          /\ ~r.ok => r.err = "FlyteSystemException"
          /\ r.ok => /\ Range(r.val) = TransitiveSubWorkflows(w)
                     /\ r.val = ConcatAll([i \in DOMAIN refs |->
                                   <<refs[i].executable>>
                                       \o get_sub_workflows(refs[i].executable).val])

C14_Witness ==
    /\ reg.op = "get_sub_workflows"
    /\ reg.wf = "top"
    /\ reg.result.ok
    /\ reg.result.val = <<"mid", "leaf", "leaf">>

(***************************************************************************)
(* Properties of construction and promotion.                               *)
(***************************************************************************)
SystemIds == {START_NODE_ID, END_NODE_ID}

\* The template's nodes that are not the system start / end nodes.
NonSystem(t) == {t.nodes[i] : i \in {j \in DOMAIN t.nodes : t.nodes[j].id \notin SystemIds}}

\* C9: promote_from_model keeps the template's nodes other than the system
\* start / end nodes, and fails with the lookup error, returning no
\* workflow, whenever one of those nodes declares an upstream id that is
\* not the id of one of them.
C9_PromoteDangling ==
    (tmpl_in.op = "promote" /\ tmpl_out.err # "pending")
    => LET keys == {n.id : n \in NonSystem(tmpl_in.template)}
       IN /\ (\E n \in NonSystem(tmpl_in.template) :
                  \E u \in Range(n.upstream_node_ids) : u \notin keys)
             => (~tmpl_out.ok /\ tmpl_out.err = "KeyError")
          /\ tmpl_out.ok
             => /\ Range(tmpl_out.val.nodes) = keys
                /\ DOMAIN tmpl_out.val.heap = keys
                /\ \A k \in keys : tmpl_out.val.heap[k].upstream_nodes \subseteq keys

C9_Witness ==
    /\ tmpl_in.op = "promote"
    /\ tmpl_out.err = "KeyError"
    /\ Len(tmpl_in.template.nodes) = 2
    /\ tmpl_in.template.nodes[1].id = START_NODE_ID
    /\ tmpl_in.template.nodes[2].upstream_node_ids = <<START_NODE_ID>>

\* C10: in every workflow the constructor returned, every upstream node of
\* every listed node has an id and is itself one of the listed nodes.
C10_UpstreamAreMembers ==
    (tmpl_in.op = "construct" /\ tmpl_out.ok)
    => \A n \in Range(tmpl_out.val.nodes) :
           \A u \in tmpl_out.val.heap[n].upstream_nodes :
               /\ tmpl_out.val.heap[u].id # None
               /\ u \in Range(tmpl_out.val.nodes)

\* C11: promoting the template obtained by serializing a workflow W yields
\* a workflow with the same set of nodes, the same upstream edges between
\* them, the same bindings per node, the same interface and the same
\* output bindings as W.
C11_RoundTrip ==
    tmpl_in.op = "roundtrip"
    => /\ tmpl_out.ok
       /\ LET W == tmpl_in.original
              P == tmpl_out.val
              idOf(o) == W.heap[o].id
          IN /\ Range(P.nodes) = {idOf(o) : o \in Range(W.nodes)}
             /\ \A o \in Range(W.nodes) :
                    /\ P.heap[idOf(o)].upstream_nodes
                           = {idOf(u) : u \in W.heap[o].upstream_nodes}
                    /\ P.heap[idOf(o)].bindings = W.heap[o].bindings
             /\ P.interface = W.interface
             /\ P.outputs = W.outputs
====
